---- MODULE Spec2Model ----
(***************************************************************************)
(* Model of app/services.py of bocrren: the region planner                 *)
(* (calculate_adaptive_crop), the field extractor (extract_metadata) and   *)
(* the name composer (create_suggested_name).                              *)
(*                                                                         *)
(* A Python str is a sequence of one-character strings.  Python's None is  *)
(* the distinguished value None below, which is no str of the alphabet.    *)
(* Field tokens ('vendor', 'date', ...) are only compared as wholes and    *)
(* are kept as TLA+ strings.                                               *)
(***************************************************************************)
EXTENDS Integers, Sequences, FiniteSets, TLC

VARIABLES
    \* calculate_adaptive_crop
    crop_list, crop_i, max_location, adaptive_crop, crop_pc,
    \* extract_metadata
    lines, custom_search_term, targeted_label_term, li,
    date_str, amount_str, invoice_str, reference_str,
    custom_match_str, targeted_label_str, vendor_str, ex_pc,
    \* create_suggested_name
    metadata, original_extension, custom_prefix, separator,
    component_list, name_parts, ci, suggested_name, cp_pc

cropVars == <<crop_list, crop_i, max_location, adaptive_crop, crop_pc>>

exVars == <<lines, custom_search_term, targeted_label_term, li, date_str, amount_str, invoice_str, reference_str, custom_match_str, targeted_label_str, vendor_str, ex_pc>>

cpVars == <<metadata, original_extension, custom_prefix, separator, component_list, name_parts, ci, suggested_name, cp_pc>>

vars == <<cropVars, exVars, cpVars>>

-----------------------------------------------------------------------------
(* Bounds of the checked instances.                                        *)

\* longest component list given to calculate_adaptive_crop
MaxCropTokens == 3

\* most lines of a text given to extract_metadata
MaxLines == 2

\* most lines of a text built from the lines of the invoice scenario
MaxScenarioLines == 4

\* longest component list given to create_suggested_name
MaxTokens == 2

-----------------------------------------------------------------------------
(* Python values.                                                          *)

None == <<"None">>

\* bool(x) of a str-or-None value: None and '' are falsy
Truthy(x) == x # None /\ x # <<>>

Min2(a, b) == IF a < b THEN a ELSE b

-----------------------------------------------------------------------------
(* calculate_adaptive_crop(component_list)                                 *)

\* the vocabulary the component lists are drawn from: the eight tokens of
\* the depth table, one token the table lacks
CropTokens == {"vendor", "date", "invoice_number", "reference_number", "custom_match", "targeted_label", "amount", "timestamp", "bogus"}

component_locations == [vendor |-> 30, date |-> 35, invoice_number |-> 40, reference_number |-> 40, custom_match |-> 40, targeted_label |-> 50, amount |-> 80, timestamp |-> 100]

SeqsUpTo(S, n) == UNION {[1..k -> S] : k \in 0..n}

CropInit ==
    /\ crop_list \in SeqsUpTo(CropTokens, MaxCropTokens)
    /\ crop_i = 0
    /\ max_location = 0
    /\ adaptive_crop = 0
    /\ crop_pc = "start"

\* lines 143-144: an empty (or absent) list returns the default at once
CropEmpty ==
    /\ crop_pc = "start"
    /\ crop_list = <<>>
    /\ adaptive_crop' = 50
    /\ crop_pc' = "done"
    /\ UNCHANGED <<crop_list, crop_i, max_location>>

\* CropBegin without the floor of line 162
CropBeginNoFloor ==
    /\ crop_pc = "start"
    /\ crop_list # <<>>
    /\ max_location' = 0
    /\ crop_i' = 1
    /\ crop_pc' = "loop"
    /\ UNCHANGED <<crop_list, adaptive_crop>>

\* line 162: max_location = 50, then the loop starts
CropBegin ==
    /\ crop_pc = "start"
    /\ crop_list # <<>>
    /\ max_location' = 50
    /\ crop_i' = 1
    /\ crop_pc' = "loop"
    /\ UNCHANGED <<crop_list, adaptive_crop>>

\* lines 164-168: one iteration of the for loop
CropLoop ==
    /\ crop_pc = "loop"
    /\ crop_i <= Len(crop_list)
    /\ LET component == crop_list[crop_i] IN
         max_location' =
            IF component \in DOMAIN component_locations
               /\ component_locations[component] > max_location
            THEN component_locations[component]
            ELSE max_location
    /\ crop_i' = crop_i + 1
    /\ UNCHANGED <<crop_list, adaptive_crop, crop_pc>>

\* CropReturn without the clamp of line 171
CropReturnUnclamped ==
    /\ crop_pc = "loop"
    /\ crop_i > Len(crop_list)
    /\ adaptive_crop' = max_location + 10
    /\ crop_pc' = "done"
    /\ UNCHANGED <<crop_list, crop_i, max_location>>

\* lines 171-173: the buffer, the clamp, the return
CropReturn ==
    /\ crop_pc = "loop"
    /\ crop_i > Len(crop_list)
    /\ adaptive_crop' = Min2(max_location + 10, 100)
    /\ crop_pc' = "done"
    /\ UNCHANGED <<crop_list, crop_i, max_location>>

CropNext ==
    \/ CropEmpty /\ UNCHANGED <<exVars, cpVars>>
    \/ CropBegin /\ UNCHANGED <<exVars, cpVars>>
    \/ CropLoop /\ UNCHANGED <<exVars, cpVars>>
    \/ CropReturn /\ UNCHANGED <<exVars, cpVars>>

-----------------------------------------------------------------------------
(* Characters and the str methods the code uses.                           *)

Digits == {"0", "1", "2", "3", "4", "5", "6", "7", "8", "9"}

LowerSeq == <<"a", "b", "c", "d", "e", "f", "g", "h", "i", "j", "k", "l", "m", "n", "o", "p", "q", "r", "s", "t", "u", "v", "w", "x", "y", "z">>

UpperSeq == <<"A", "B", "C", "D", "E", "F", "G", "H", "I", "J", "K", "L", "M", "N", "O", "P", "Q", "R", "S", "T", "U", "V", "W", "X", "Y", "Z">>

LowerSet == {LowerSeq[k] : k \in DOMAIN LowerSeq}

UpperSet == {UpperSeq[k] : k \in DOMAIN UpperSeq}

\* [a-zA-Z0-9]
Alnum == Digits \cup LowerSet \cup UpperSet

\* \s, as far as the modelled alphabet has it
Space == {" ", "\t"}

\* [a-zA-Z0-9-]
TokenChars == Alnum \cup {"-"}

\* [a-zA-Z0-9_.-]
SafeChars == Alnum \cup {"_", ".", "-"}

ToLowerMap == [c \in UpperSet |-> LowerSeq[CHOOSE k \in DOMAIN UpperSeq : UpperSeq[k] = c]]

ToUpperMap == [c \in LowerSet |-> UpperSeq[CHOOSE k \in DOMAIN LowerSeq : LowerSeq[k] = c]]

\* one character under re.IGNORECASE
Fold(c) == IF c \in UpperSet THEN ToLowerMap[c] ELSE c

\* str.upper()
Upper(s) == [k \in DOMAIN s |-> IF s[k] \in LowerSet THEN ToUpperMap[s[k]] ELSE s[k]]

SetMin(S) == CHOOSE x \in S : \A y \in S : x <= y

SetMax(S) == CHOOSE x \in S : \A y \in S : x >= y

\* re.sub(r'[^...]', '', s): keep the characters of class S
Keep(s, S) == SelectSeq(s, LAMBDA c : c \in S)

\* s.replace(a, '') for a single character
Remove(s, a) == SelectSeq(s, LAMBDA c : c # a)

\* s.replace(a, b) for single characters
Replace(s, a, b) == [k \in DOMAIN s |-> IF s[k] = a THEN b ELSE s[k]]

\* s.strip(chars): drop the leading and trailing characters of class S
StripChars(s, S) ==
    LET idx == {k \in DOMAIN s : s[k] \notin S}
    IN  IF idx = {} THEN <<>> ELSE SubSeq(s, SetMin(idx), SetMax(idx))

\* s.strip()
Strip(s) == StripChars(s, Space)

\* s[:n]
Take(s, n) == SubSeq(s, 1, Min2(n, Len(s)))

\* sep.join(parts)
RECURSIVE Join(_, _)
Join(sep, parts) ==
    IF parts = <<>> THEN <<>>
    ELSE IF Len(parts) = 1 THEN parts[1]
    ELSE parts[1] \o sep \o Join(sep, Tail(parts))

\* the number of consecutive characters of class S from position i on
RunLen(line, i, S) ==
    LET stop == {k \in i..Len(line) : line[k] \notin S}
    IN  IF i > Len(line) THEN 0
        ELSE IF stop = {} THEN Len(line) - i + 1
        ELSE SetMin(stop) - i

\* n characters of class S at position i
AllIn(line, i, n, S) ==
    /\ i + n - 1 <= Len(line)
    /\ \A k \in i..(i + n - 1) : line[k] \in S

\* the literal lit at position i, ignoring case
LitAt(line, i, lit) ==
    /\ i + Len(lit) - 1 <= Len(line)
    /\ \A k \in DOMAIN lit : Fold(line[i + k - 1]) = Fold(lit[k])

\* the literal lit at position i, case kept
ExactAt(line, i, lit) ==
    /\ i + Len(lit) - 1 <= Len(line)
    /\ \A k \in DOMAIN lit : line[i + k - 1] = lit[k]

-----------------------------------------------------------------------------
(* The four precompiled patterns of extract_metadata.  Each Search gives   *)
(* the group the code reads from re.search's leftmost match, or None.      *)

\* date_pattern: \d{1,2}[/-]\d{1,2}[/-]\d{2,4}
DateSeps == {"/", "-"}

\* the greedy choices of the two \d{1,2}, in the order the engine tries them
DateWidths == <<<<2, 2>>, <<2, 1>>, <<1, 2>>, <<1, 1>>>>

DateFits(line, i, w) ==
    LET s1 == i + w[1]
        s2 == s1 + 1 + w[2]
    IN  /\ AllIn(line, i, w[1], Digits)
        /\ AllIn(line, s1, 1, DateSeps)
        /\ AllIn(line, s1 + 1, w[2], Digits)
        /\ AllIn(line, s2, 1, DateSeps)
        /\ RunLen(line, s2 + 1, Digits) >= 2

\* the position after a match that starts at i; 0 when none starts there
DateEnd(line, i) ==
    LET fit == {n \in DOMAIN DateWidths : DateFits(line, i, DateWidths[n])}
    IN  IF fit = {} THEN 0
        ELSE LET w == DateWidths[SetMin(fit)]
                 y == i + w[1] + 1 + w[2] + 1
             IN  y + Min2(4, RunLen(line, y, Digits))

\* date_pattern.search(line).group(0)
DateSearch(line) ==
    LET starts == {i \in DOMAIN line : DateEnd(line, i) # 0}
    IN  IF starts = {} THEN None
        ELSE SubSeq(line, SetMin(starts), DateEnd(line, SetMin(starts)) - 1)

\* amount_pattern, re.IGNORECASE:
\*   ([Ss]?\s*|Total|TOTAL|Amount)\s*[\$€£]?\s*(\d{1,3}(?:[,\.\s]?\d{3})*(?:[\.,]\d{2}))
Currency == {"$", "€", "£"}

ThousandsSeps == {",", "."} \cup Space

DecimalSeps == {".", ","}

AmountLabels == <<<<"t", "o", "t", "a", "l">>, <<"a", "m", "o", "u", "n", "t">>>>

\* (?:[\.,]\d{2}) at q: the position after it, or 0
DecimalEnd(line, q) ==
    IF AllIn(line, q, 1, DecimalSeps) /\ AllIn(line, q + 1, 2, Digits) THEN q + 3 ELSE 0

\* (?:[,\.\s]?\d{3})*(?:[\.,]\d{2}) at q, greedy with backtracking: one more
\* group with its separator, one more group without it, then the decimals
RECURSIVE GroupsEnd(_, _)
GroupsEnd(line, q) ==
    LET withSep == IF AllIn(line, q, 1, ThousandsSeps) /\ AllIn(line, q + 1, 3, Digits)
                   THEN GroupsEnd(line, q + 4) ELSE 0
        noSep   == IF AllIn(line, q, 3, Digits) THEN GroupsEnd(line, q + 3) ELSE 0
    IN  IF withSep # 0 THEN withSep
        ELSE IF noSep # 0 THEN noSep
        ELSE DecimalEnd(line, q)

\* group 2 at p: \d{1,3} tried at 3, 2, 1 digits; the position after, or 0
NumberEnd(line, p) ==
    IF AllIn(line, p, 3, Digits) /\ GroupsEnd(line, p + 3) # 0 THEN GroupsEnd(line, p + 3)
    ELSE IF AllIn(line, p, 2, Digits) /\ GroupsEnd(line, p + 2) # 0 THEN GroupsEnd(line, p + 2)
    ELSE IF AllIn(line, p, 1, Digits) THEN GroupsEnd(line, p + 1)
    ELSE 0

\* \s*[\$€£]?\s* covers exactly line[x..p-1]
SymbolGap(line, x, p) ==
    /\ \A k \in x..(p - 1) : line[k] \in Space \cup Currency
    /\ Cardinality({k \in x..(p - 1) : line[k] \in Currency}) <= 1

\* group 1 and the optional symbol cover exactly line[i..p-1]
AmountPrefix(line, i, p) ==
    \/ SymbolGap(line, i, p)
    \/ i < p /\ Fold(line[i]) = "s" /\ SymbolGap(line, i + 1, p)
    \/ \E n \in DOMAIN AmountLabels :
          /\ LitAt(line, i, AmountLabels[n])
          /\ i + Len(AmountLabels[n]) <= p
          /\ SymbolGap(line, i + Len(AmountLabels[n]), p)

AmountAt(line, i, p) == NumberEnd(line, p) # 0 /\ AmountPrefix(line, i, p)

\* amount_pattern.search(line).group(2)
AmountSearch(line) ==
    LET starts == {i \in DOMAIN line : \E p \in i..Len(line) : AmountAt(line, i, p)}
    IN  IF starts = {} THEN None
        ELSE LET i == SetMin(starts)
                 p == CHOOSE p \in i..Len(line) : AmountAt(line, i, p)
             IN  SubSeq(line, p, NumberEnd(line, p) - 1)

\* invoice_pattern and reference_pattern, re.IGNORECASE:
\*   (label|...)\s*[:#\s]*([a-zA-Z0-9-]{3,20})
LabelSeps == {":", "#"} \cup Space

InvoiceLabels == <<<<"i", "n", "v", "o", "i", "c", "e">>, <<"i", "n", "v">>, <<"b", "i", "l", "l">>, <<"s", "t", "a", "t", "e", "m", "e", "n", "t">>>>

ReferenceLabels == <<<<"r", "e", "f">>, <<"r", "e", "f", "e", "r", "e", "n", "c", "e">>, <<"p", "o">>>>

\* where group 2 starts when label lab is matched at i
NumberStart(line, i, lab) == i + Len(lab) + RunLen(line, i + Len(lab), LabelSeps)

LabelFits(line, i, lab) ==
    /\ LitAt(line, i, lab)
    /\ RunLen(line, NumberStart(line, i, lab), TokenChars) >= 3

\* pattern.search(line).group(2) for the alternation labels, tried in order
NumberSearch(line, labels) ==
    LET fits(i) == {n \in DOMAIN labels : LabelFits(line, i, labels[n])}
        starts  == {i \in DOMAIN line : fits(i) # {}}
    IN  IF starts = {} THEN None
        ELSE LET i == SetMin(starts)
                 t == NumberStart(line, i, labels[SetMin(fits(i))])
             IN  SubSeq(line, t, t + Min2(20, RunLen(line, t, TokenChars)) - 1)

\* str.isdigit()
IsDigitStr(s) == s # <<>> /\ \A k \in DOMAIN s : s[k] \in Digits

\* lines 242-251: the match of the custom term in one line, or None
CustomSearch(line, term) ==
    IF IsDigitStr(term)
    THEN \* term + '[\d-]+', case kept
         LET after(i) == RunLen(line, i + Len(term), Digits \cup {"-"})
             starts == {i \in DOMAIN line : ExactAt(line, i, term) /\ after(i) >= 1}
         IN  IF starts = {} THEN None
             ELSE LET i == SetMin(starts)
                  IN  SubSeq(line, i, i + Len(term) + after(i) - 1)
    ELSE \* '[a-zA-Z0-9-]*' + re.escape(term) + '[a-zA-Z0-9-]*', re.IGNORECASE
         LET at(i) == {k \in i..Len(line) : AllIn(line, i, k - i, TokenChars) /\ LitAt(line, k, term)}
             starts == {i \in DOMAIN line : at(i) # {}}
         IN  IF starts = {} THEN None
             ELSE LET i == SetMin(starts)
                      e == SetMax(at(i)) + Len(term)
                  IN  Strip(SubSeq(line, i, e + RunLen(line, e, TokenChars) - 1))

\* lines 261-265: re.escape(term) + '\s*([^\n]+)', re.IGNORECASE; group(1)
TargetSearch(line, term) ==
    LET starts == {i \in DOMAIN line : LitAt(line, i, term) /\ i + Len(term) <= Len(line)}
    IN  IF starts = {} THEN None
        ELSE LET q == SetMin(starts) + Len(term)
                 w == RunLen(line, q, Space)
             IN  IF q + w <= Len(line) THEN SubSeq(line, q + w, Len(line))
                 ELSE SubSeq(line, Len(line), Len(line))

-----------------------------------------------------------------------------
(* extract_metadata(text, custom_search_term, targeted_label_term)         *)

OCR_Scan == <<"O", "C", "R", "_", "S", "c", "a", "n">>

USD == <<"U", "S", "D", "-">>

\* lines 192-196: the vendor, from the first line only
VendorOf(first) ==
    LET first_line == Strip(first)
        v == Replace(Take(Strip(Keep(first_line, Alnum \cup Space \cup {"-"})), 20), " ", "_")
    IN  IF v = <<>> THEN OCR_Scan ELSE v

\* NextDate without the separators normalised
NextDateRaw(cur, line) ==
    IF ~Truthy(cur) /\ DateSearch(line) # None
    THEN DateSearch(line)
    ELSE cur

\* lines 215-218
NextDate(cur, line) ==
    IF ~Truthy(cur) /\ DateSearch(line) # None
    THEN Replace(DateSearch(line), "/", "-")
    ELSE cur

\* lines 221-225
NextAmount(cur, line) ==
    IF ~Truthy(cur) /\ AmountSearch(line) # None
    THEN USD \o Remove(AmountSearch(line), ",")
    ELSE cur

\* NextInvoice without the guard: a later line overwrites the number
NextInvoiceOverwrite(cur, line) ==
    IF NumberSearch(line, InvoiceLabels) # None
    THEN Replace(Upper(Strip(NumberSearch(line, InvoiceLabels))), " ", "_")
    ELSE cur

\* lines 228-231
NextInvoice(cur, line) ==
    IF ~Truthy(cur) /\ NumberSearch(line, InvoiceLabels) # None
    THEN Replace(Upper(Strip(NumberSearch(line, InvoiceLabels))), " ", "_")
    ELSE cur

\* lines 234-237; inv is invoice_str as this iteration has just left it
NextReference(cur, inv, line) ==
    IF ~Truthy(cur) /\ ~Truthy(inv) /\ NumberSearch(line, ReferenceLabels) # None
    THEN Replace(Upper(Strip(NumberSearch(line, ReferenceLabels))), " ", "_")
    ELSE cur

\* lines 240-254
NextCustom(cur, term, line) ==
    IF Truthy(term) /\ ~Truthy(cur)
    THEN LET found == IF CustomSearch(line, term) # None THEN CustomSearch(line, term) ELSE cur
         IN  IF Truthy(found) THEN StripChars(Keep(found, TokenChars), {"_"}) ELSE found
    ELSE cur

\* lines 259-268
NextTargeted(cur, term, line) ==
    IF Truthy(term) /\ ~Truthy(cur) /\ TargetSearch(line, term) # None
    THEN LET v == Keep(Strip(TargetSearch(line, term)), Alnum)
         IN  IF v = <<>> THEN None ELSE v
    ELSE cur

\* AllRequiredFound with the date as the only gate
DateFound(d, c, t) == Truthy(d)

\* lines 273-275: the condition of the early exit
AllRequiredFound(d, c, t) ==
    /\ Truthy(d)
    /\ ~Truthy(custom_search_term) \/ Truthy(c)
    /\ ~Truthy(targeted_label_term) \/ Truthy(t)

\* lines 181-196: the locals, the split text, the vendor
ExBegin ==
    /\ ex_pc = "start"
    /\ vendor_str' = VendorOf(lines[1])
    /\ li' = 1
    /\ ex_pc' = "loop"
    /\ UNCHANGED <<lines, custom_search_term, targeted_label_term, date_str, amount_str, invoice_str, reference_str, custom_match_str, targeted_label_str>>

\* lines 213-277: one iteration of the scan, the break included
ExLine ==
    /\ ex_pc = "loop"
    /\ li <= Len(lines)
    /\ LET line == lines[li]
           d == NextDate(date_str, line)
           a == NextAmount(amount_str, line)
           i == NextInvoice(invoice_str, line)
           r == NextReference(reference_str, i, line)
           c == NextCustom(custom_match_str, custom_search_term, line)
           t == NextTargeted(targeted_label_str, targeted_label_term, line)
       IN  /\ date_str' = d
           /\ amount_str' = a
           /\ invoice_str' = i
           /\ reference_str' = r
           /\ custom_match_str' = c
           /\ targeted_label_str' = t
           /\ IF AllRequiredFound(d, c, t)
              THEN ex_pc' = "return" /\ li' = li
              ELSE ex_pc' = "loop" /\ li' = li + 1
    /\ UNCHANGED <<lines, custom_search_term, targeted_label_term, vendor_str>>

\* line 213: the lines are exhausted
ExExhausted ==
    /\ ex_pc = "loop"
    /\ li > Len(lines)
    /\ ex_pc' = "return"
    /\ UNCHANGED <<lines, custom_search_term, targeted_label_term, li, date_str, amount_str, invoice_str, reference_str, custom_match_str, targeted_label_str, vendor_str>>

\* lines 279-287: the returned record
ExReturn ==
    /\ ex_pc = "return"
    /\ metadata' = [date |-> date_str, vendor |-> vendor_str, amount |-> amount_str, invoice_number |-> invoice_str, reference_number |-> reference_str, custom_match |-> custom_match_str, targeted_label |-> targeted_label_str]
    /\ ex_pc' = "done"
    /\ UNCHANGED <<lines, custom_search_term, targeted_label_term, li, date_str, amount_str, invoice_str, reference_str, custom_match_str, targeted_label_str, vendor_str>>

cpRest == <<original_extension, custom_prefix, separator, component_list, name_parts, ci, suggested_name, cp_pc>>

ExNext ==
    \/ ExBegin /\ UNCHANGED <<cropVars, cpVars>>
    \/ ExLine /\ UNCHANGED <<cropVars, cpVars>>
    \/ ExExhausted /\ UNCHANGED <<cropVars, cpVars>>
    \/ ExReturn /\ UNCHANGED <<cropVars, cpRest>>

-----------------------------------------------------------------------------
(* create_suggested_name(metadata, original_extension, custom_prefix,      *)
(*                       separator, component_list)                        *)

\* the clock: datetime.date.today().strftime('%Y%m%d') and
\* datetime.datetime.now().strftime('%H%M%S'), held fixed
Today == <<"2", "0", "2", "6", "1", "1", "0", "2">>

Now == <<"1", "0", "1", "5", "0", "0">>

EMPTY_OCR == <<"E", "M", "P", "T", "Y", "_", "O", "C", "R">>

GENERIC == <<"G", "E", "N", "E", "R", "I", "C">>

DefaultFilename == <<"f", "i", "l", "e">>

\* dict.get(key, default)
Get(d, key, default) == IF key \in DOMAIN d THEN d[key] ELSE default

\* KeyList with the default taken for the empty list as well
KeyListOrEmpty(cl) == IF cl = None \/ cl = <<>> THEN <<"custom_match">> ELSE cl

\* lines 291-292: the list the loop runs over
KeyList(cl) == IF cl = None THEN <<"custom_match">> ELSE cl

\* lines 298-308
component_map(md) ==
    [date |-> IF Truthy(md["date"]) THEN md["date"] ELSE Today,
     vendor |-> Get(md, "vendor", GENERIC),
     amount |-> Get(md, "amount", None),
     invoice_number |-> Get(md, "invoice_number", None),
     reference_number |-> Get(md, "reference_number", None),
     custom_match |-> Get(md, "custom_match", None),
     targeted_label |-> Get(md, "targeted_label", None),
     timestamp |-> Now,
     original_filename |-> Get(md, "original_filename", DefaultFilename)]

\* re.sub(r'[^a-zA-Z0-9_.-]', '', s)
Sanitize(s) == Keep(s, SafeChars)

\* lines 294-296: the prefix, when given, is the first part
CpPrefix ==
    /\ cp_pc = "start"
    /\ name_parts' = IF custom_prefix # <<>> THEN <<Strip(Sanitize(custom_prefix))>> ELSE <<>>
    /\ ci' = 1
    /\ cp_pc' = "loop"
    /\ UNCHANGED <<metadata, original_extension, custom_prefix, separator, component_list, suggested_name>>

\* CpLoop with the value put in front of the parts
CpLoopPrepend ==
    /\ cp_pc = "loop"
    /\ ci <= Len(KeyList(component_list))
    /\ LET key == KeyList(component_list)[ci]
           value == Get(component_map(metadata), key, None)
       IN  name_parts' = IF Truthy(value) THEN <<value>> \o name_parts ELSE name_parts
    /\ ci' = ci + 1
    /\ UNCHANGED <<metadata, original_extension, custom_prefix, separator, component_list, suggested_name, cp_pc>>

\* lines 310-312: one iteration of the loop over the keys
CpLoop ==
    /\ cp_pc = "loop"
    /\ ci <= Len(KeyList(component_list))
    /\ LET key == KeyList(component_list)[ci]
           value == Get(component_map(metadata), key, None)
       IN  name_parts' = IF Truthy(value) THEN Append(name_parts, value) ELSE name_parts
    /\ ci' = ci + 1
    /\ UNCHANGED <<metadata, original_extension, custom_prefix, separator, component_list, suggested_name, cp_pc>>

\* lines 314-315: the synthetic name when no part was collected
CpFallback ==
    /\ cp_pc = "loop"
    /\ ci > Len(KeyList(component_list))
    /\ name_parts' = IF name_parts = <<>> THEN <<Today, EMPTY_OCR>> ELSE name_parts
    /\ cp_pc' = "join"
    /\ UNCHANGED <<metadata, original_extension, custom_prefix, separator, component_list, ci, suggested_name>>

\* SafeName without the final sanitization
JoinedName(sep, parts) == Join(sep, parts)

\* lines 317-318
SafeName(sep, parts) == Replace(Sanitize(Join(sep, parts)), " ", "_")

\* lines 317-320: join, sanitize, append the extension
CpJoin ==
    /\ cp_pc = "join"
    /\ suggested_name' = SafeName(separator, name_parts) \o original_extension
    /\ cp_pc' = "done"
    /\ UNCHANGED <<metadata, original_extension, custom_prefix, separator, component_list, name_parts, ci>>

CpNext ==
    \/ CpPrefix /\ UNCHANGED <<cropVars, exVars>>
    \/ CpLoop /\ UNCHANGED <<cropVars, exVars>>
    \/ CpFallback /\ UNCHANGED <<cropVars, exVars>>
    \/ CpJoin /\ UNCHANGED <<cropVars, exVars>>

-----------------------------------------------------------------------------
(* Inputs.                                                                 *)

\* OCR lines: labels, dates and amounts in several positions; a custom
\* match that sanitizes to ''; a label whose value sanitizes to ''
LinePool == {
    <<"R", "e", "f", ":", " ", "A", "B", "-", "1", "2", "3">>,
    <<"I", "n", "v", " ", "7", "7", "-", "A", " ", "N", "o", ":", " ", "7">>,
    <<"D", "a", "t", "e", " ", "0", "4", "/", "1", "2", "/", "2", "0", "2", "3">>,
    <<"T", "o", "t", "a", "l", " ", "$", "1", ",", "2", "5", "0", ".", "0", "0">>,
    <<"P", "O", " ", "4", "4", "5", "5", " ", "1", "-", "2", "-", "2", "3">>,
    <<"N", "o", ":", " ", "1", "2", "-", "9", " ", "#">>,
    <<"a", "#", "b", " ", "N", "o", ":", " ", "-", "-">>,
    <<"B", "i", "l", "l", " ", "8", "8", "-", "B", " ", "3", ".", "5", "0">>}

Texts == UNION {[1..k -> LinePool] : k \in 1..MaxLines}

CustomTerms == {None, <<"1", "2">>, <<"#">>}

LabelTerms == {None, <<"N", "o", ":">>}

\* the text of the invoice scenario
ScenarioText == <<
    <<"A", "c", "m", "e", " ", "C", "o", "r", "p">>,
    <<"I", "n", "v", "o", "i", "c", "e", ":", " ", "A", "1", "-", "9", "9", "8">>,
    <<"D", "a", "t", "e", " ", "0", "4", "/", "1", "2", "/", "2", "0", "2", "3">>,
    <<"T", "o", "t", "a", "l", " ", "$", "1", ",", "2", "5", "0", ".", "0", "0">>>>

ScenarioLines == {ScenarioText[k] : k \in DOMAIN ScenarioText}

ScenarioTexts == UNION {[1..k -> ScenarioLines] : k \in 1..MaxScenarioLines}

Pdf == <<".", "p", "d", "f">>

Underscore == <<"_">>

Extensions == {Pdf, <<".", "p", "d", "f", " ", "(", "1", ")">>}

Prefixes == {<<>>, <<"p", ".", "1">>, <<"#">>}

Separators == {Underscore, <<"-">>}

ComposeTokens == {"date", "vendor", "custom_match", "invoice_number", "timestamp", "bogus"}

ComponentLists == {None} \cup SeqsUpTo(ComposeTokens, MaxTokens)

\* metadata records: every field null or set, a custom match that is '' or
\* has no safe character, a record without the optional keys
Metadatas ==
    [date : {None, <<"1", "-", "2", "-", "2", "3">>},
     vendor : {None, <<"A", "_", "B">>},
     amount : {None},
     invoice_number : {None, <<"A", "1">>},
     reference_number : {None},
     custom_match : {None, <<>>, <<"X", "-", "1">>, <<"@">>},
     targeted_label : {None}]
    \cup {[date |-> None, original_filename |-> <<"s", "c", "a", "n">>]}

\* the lists, prefixes and separators the pipeline composes with
PipelineLists == {<<"vendor", "date", "amount">>, <<"amount", "invoice_number", "reference_number">>, <<"custom_match">>, <<>>}

-----------------------------------------------------------------------------
(* Specifications.                                                         *)

CropIdle ==
    /\ crop_list = <<>>
    /\ crop_i = 0
    /\ max_location = 0
    /\ adaptive_crop = 0
    /\ crop_pc = "idle"

ExIdle ==
    /\ lines = <<>>
    /\ custom_search_term = None
    /\ targeted_label_term = None
    /\ li = 0
    /\ date_str = None
    /\ amount_str = None
    /\ invoice_str = None
    /\ reference_str = None
    /\ custom_match_str = None
    /\ targeted_label_str = None
    /\ vendor_str = None
    /\ ex_pc = "idle"

CpIdle ==
    /\ metadata = None
    /\ original_extension = <<>>
    /\ custom_prefix = <<>>
    /\ separator = <<>>
    /\ component_list = None
    /\ name_parts = <<>>
    /\ ci = 0
    /\ suggested_name = None
    /\ cp_pc = "idle"

\* the call of extract_metadata on one of the given texts (lines 181-189)
ExCall(texts, customs, labels) ==
    /\ lines \in texts
    /\ custom_search_term \in customs
    /\ targeted_label_term \in labels
    /\ li = 0
    /\ date_str = None
    /\ amount_str = None
    /\ invoice_str = None
    /\ reference_str = None
    /\ custom_match_str = None
    /\ targeted_label_str = None
    /\ vendor_str = None
    /\ ex_pc = "start"

\* the call of create_suggested_name (line 290)
CpCall ==
    /\ metadata \in Metadatas
    /\ original_extension \in Extensions
    /\ custom_prefix \in Prefixes
    /\ separator \in Separators
    /\ component_list \in ComponentLists
    /\ name_parts = <<>>
    /\ ci = 0
    /\ suggested_name = None
    /\ cp_pc = "start"

\* routes.py lines 71-76: the extracted metadata goes to the composer
ComposeCall ==
    /\ ex_pc = "done"
    /\ cp_pc = "idle"
    /\ original_extension' = Pdf
    /\ custom_prefix' \in {<<>>, <<"p", ".", "1">>}
    /\ separator' = Underscore
    /\ component_list' \in PipelineLists
    /\ cp_pc' = "start"
    /\ UNCHANGED <<metadata, name_parts, ci, suggested_name>>

CropSpecInit == CropInit /\ ExIdle /\ CpIdle

SpecCrop == CropSpecInit /\ [][CropNext]_vars

ExtractInit == CropIdle /\ ExCall(Texts, CustomTerms, LabelTerms) /\ CpIdle

SpecExtract == ExtractInit /\ [][ExNext]_vars

ComposeInit == CropIdle /\ ExIdle /\ CpCall

SpecCompose == ComposeInit /\ [][CpNext]_vars

Init == CropIdle /\ ExCall(ScenarioTexts, {None, <<"A", "1">>}, {None}) /\ CpIdle

Next ==
    \/ ExNext
    \/ ComposeCall /\ UNCHANGED <<cropVars, exVars>>
    \/ CpNext

Spec == Init /\ [][Next]_vars

-----------------------------------------------------------------------------
(* Properties.                                                             *)

Range(f) == {f[k] : k \in DOMAIN f}

EndsWith(s, suffix) ==
    /\ Len(suffix) <= Len(s)
    /\ SubSeq(s, Len(s) - Len(suffix) + 1, Len(s)) = suffix

Contains(s, sub) == \E k \in 1..(Len(s) - Len(sub) + 1) : SubSeq(s, k, k + Len(sub) - 1) = sub

\* the part of the composed name before the appended extension
Stem == SubSeq(suggested_name, 1, Len(suggested_name) - Len(original_extension))

(* ---- the region planner ---- *)

PlannedDepth ==
    IF crop_list = <<>> THEN 50
    ELSE Min2(100, 10 + SetMax({50} \cup {component_locations[t] : t \in Range(crop_list) \cap DOMAIN component_locations}))

C5_AsStated ==
    crop_pc = "done" =>
        /\ crop_list = <<>> => adaptive_crop = 50
        /\ crop_list = <<"amount">> => adaptive_crop = 90
        /\ crop_list = <<"vendor">> => adaptive_crop = 40

\* C5 amended: 50 for [], 90 for ['amount'], 60 for ['vendor'] (the floor
\* of 50 plus the margin of 10).
C5_Amended ==
    crop_pc = "done" =>
        /\ crop_list = <<>> => adaptive_crop = 50
        /\ crop_list = <<"amount">> => adaptive_crop = 90
        /\ crop_list = <<"vendor">> => adaptive_crop = 60

C5_Witness == crop_pc = "done" /\ crop_list = <<"vendor">> /\ adaptive_crop = 60

(* ---- the field extractor ---- *)

\* C1: in the result of extract_metadata, reference_number is null
\* whenever invoice_number is non-null.
C1_Priority ==
    ex_pc = "done" => (metadata.invoice_number # None => metadata.reference_number = None)

\* the fields after one more line, with no exit taken
ScanStep(f, line) ==
    LET i == NextInvoice(f.invoice_number, line)
    IN  [date |-> NextDate(f.date, line),
         vendor |-> f.vendor,
         amount |-> NextAmount(f.amount, line),
         invoice_number |-> i,
         reference_number |-> NextReference(f.reference_number, i, line),
         custom_match |-> NextCustom(f.custom_match, custom_search_term, line),
         targeted_label |-> NextTargeted(f.targeted_label, targeted_label_term, line)]

RECURSIVE ScanFrom(_, _)
ScanFrom(f, k) == IF k > Len(lines) THEN f ELSE ScanFrom(ScanStep(f, lines[k]), k + 1)

\* the same scan run over all the lines, with no early exit
FullScan ==
    ScanFrom([date |-> None, vendor |-> VendorOf(lines[1]), amount |-> None, invoice_number |-> None, reference_number |-> None, custom_match |-> None, targeted_label |-> None], 1)

\* the scan stopped at the early exit
ExitedEarly ==
    ex_pc = "done" /\ AllRequiredFound(date_str, custom_match_str, targeted_label_str)

\* C2 as stated: when the early exit is taken, every field of the result
\* equals that of the scan over all the lines.
C2_AsStated == ExitedEarly => metadata = FullScan

\* C2 amended: when the early exit is taken, date, vendor, custom_match and
\* targeted_label equal those of the scan over all the lines, and each of
\* amount, invoice_number and reference_number either equals that of the
\* full scan or is null.
C2_Amended ==
    ExitedEarly =>
        /\ \A k \in {"date", "vendor", "custom_match", "targeted_label"} : metadata[k] = FullScan[k]
        /\ \A k \in {"amount", "invoice_number", "reference_number"} : metadata[k] \in {FullScan[k], None}

\* the exit leaves lines unread, and the full scan finds an amount in them
C2_Witness ==
    /\ ExitedEarly
    /\ li < Len(lines)
    /\ metadata.amount = None
    /\ FullScan.amount # None
    /\ metadata.date = FullScan.date

\* the six fields the scan sets
ScanFields == <<date_str, amount_str, invoice_str, reference_str, custom_match_str, targeted_label_str>>

\* the lines the loop has read when it is left
Scanned == 1..Min2(li, Len(lines))

\* the first of the values vals[k], k among the scanned lines, that is
\* non-empty; unset when there is none
FirstOf(vals, unset) ==
    LET hits == {k \in Scanned : Truthy(vals[k])}
    IN  IF hits = {} THEN unset ELSE vals[SetMin(hits)]

\* the lines on which the reference matcher runs: no invoice number so far
NoInvoiceUpTo(k) == \A j \in 1..k : NextInvoice(None, lines[j]) = None

FirstMatches ==
    /\ date_str = FirstOf([k \in Scanned |-> NextDate(None, lines[k])], None)
    /\ amount_str = FirstOf([k \in Scanned |-> NextAmount(None, lines[k])], None)
    /\ invoice_str = FirstOf([k \in Scanned |-> NextInvoice(None, lines[k])], None)
    /\ reference_str = FirstOf([k \in Scanned |-> IF NoInvoiceUpTo(k) THEN NextReference(None, None, lines[k]) ELSE None], None)
    /\ LET v == FirstOf([k \in Scanned |-> NextCustom(None, custom_search_term, lines[k])], None)
       IN  IF Truthy(v) THEN custom_match_str = v ELSE ~Truthy(custom_match_str)
    /\ targeted_label_str = FirstOf([k \in Scanned |-> NextTargeted(None, targeted_label_term, lines[k])], None)

\* C9 as stated: a field, once set to a non-null value, keeps it on every
\* later line.
C9_AsStated ==
    [][\A n \in DOMAIN ScanFields : ScanFields[n] # None => ScanFields'[n] = ScanFields[n]]_vars

\* C9 amended: a field, once set to a non-empty value, keeps it on every
\* later line and in the result, and the returned value is the one of the
\* first scanned line on which the field's matcher produced a non-empty
\* value.
C9_Amended ==
    /\ [][\A n \in DOMAIN ScanFields : Truthy(ScanFields[n]) => ScanFields'[n] = ScanFields[n]]_vars
    /\ [](ex_pc = "return" => FirstMatches)
    /\ [](ex_pc = "done" => metadata = [date |-> date_str, vendor |-> vendor_str, amount |-> amount_str, invoice_number |-> invoice_str, reference_number |-> reference_str, custom_match |-> custom_match_str, targeted_label |-> targeted_label_str])

\* two scanned lines carry different invoice numbers; the first one stays
C9_Witness ==
    /\ ex_pc = "done"
    /\ Len(lines) >= 2
    /\ li >= 2
    /\ Truthy(NextInvoice(None, lines[1]))
    /\ Truthy(NextInvoice(None, lines[2]))
    /\ NextInvoice(None, lines[1]) # NextInvoice(None, lines[2])
    /\ metadata.invoice_number = NextInvoice(None, lines[1])

(* ---- the pipeline: the invoice scenario ---- *)

Scenario ==
    /\ lines = ScenarioText
    /\ custom_search_term = None
    /\ targeted_label_term = None
    /\ cp_pc = "done"
    /\ component_list = <<"vendor", "date", "amount">>
    /\ separator = Underscore
    /\ original_extension = Pdf
    /\ custom_prefix = <<>>

\* C3 as stated: the name of the scenario ends in '.pdf' and contains
\* 'Acme_Corp', '04-12-2023' and 'USD-1250.00' joined by '_', in that order.
C3_AsStated ==
    Scenario =>
        /\ EndsWith(suggested_name, Pdf)
        /\ Contains(suggested_name, <<"A", "c", "m", "e", "_", "C", "o", "r", "p", "_", "0", "4", "-", "1", "2", "-", "2", "0", "2", "3", "_", "U", "S", "D", "-", "1", "2", "5", "0", ".", "0", "0">>)

\* C3 amended: the name of the scenario is 'Acme_Corp_04-12-2023.pdf': the
\* vendor and the date joined by '_', and no amount, the scan having
\* stopped at the date's line before the line of the total.
C3_Amended ==
    Scenario =>
        /\ suggested_name = <<"A", "c", "m", "e", "_", "C", "o", "r", "p", "_", "0", "4", "-", "1", "2", "-", "2", "0", "2", "3", ".", "p", "d", "f">>
        /\ metadata.amount = None
        /\ li = 3

C3_Witness == Scenario /\ ex_pc = "done" /\ Len(name_parts) = 2

(* ---- the name composer ---- *)

\* the name made from the one part part, with no prefix
NameOfOne(part) == SafeName(separator, <<part>>) \o original_extension

\* C6 as stated: for an empty component_list, a non-empty custom_match and
\* an empty prefix, the name is the one made for ['custom_match'].
C6_AsStated ==
    (/\ cp_pc = "done"
     /\ component_list = <<>>
     /\ custom_prefix = <<>>
     /\ Truthy(Get(metadata, "custom_match", None)))
    => suggested_name = NameOfOne(metadata.custom_match)

\* C6 amended: for an absent (None) component_list, a non-empty
\* custom_match and an empty prefix, the name is the one made for
\* ['custom_match']; for the empty list and an empty prefix it is the
\* synthetic name, the current date and EMPTY_OCR.
C6_Amended ==
    /\ (/\ cp_pc = "done"
        /\ component_list = None
        /\ custom_prefix = <<>>
        /\ Truthy(Get(metadata, "custom_match", None)))
       => suggested_name = NameOfOne(metadata.custom_match)
    /\ (/\ cp_pc = "done"
        /\ component_list = <<>>
        /\ custom_prefix = <<>>)
       => suggested_name = SafeName(separator, <<Today, EMPTY_OCR>>) \o original_extension

C6_Witness ==
    /\ cp_pc = "done"
    /\ component_list = None
    /\ custom_prefix = <<>>
    /\ Get(metadata, "custom_match", None) = <<"X", "-", "1">>
    /\ suggested_name = <<"X", "-", "1">> \o original_extension

\* C7 as stated: the returned name has only characters of [A-Za-z0-9_.-].
C7_AsStated == cp_pc = "done" => Range(suggested_name) \subseteq SafeChars

\* C7 amended: the returned name is a stem that has only characters of
\* [A-Za-z0-9_.-], followed by the extension as it was given.
C7_Amended ==
    cp_pc = "done" =>
        /\ EndsWith(suggested_name, original_extension)
        /\ Range(Stem) \subseteq SafeChars

\* parts with unsafe characters were joined, and the stem has none of them
C7_Witness ==
    /\ cp_pc = "done"
    /\ \E n \in DOMAIN name_parts : ~(Range(name_parts[n]) \subseteq SafeChars)
    /\ Stem # <<>>
    /\ Range(Stem) \subseteq SafeChars

\* the parts the keys contribute, in the order of the keys
RECURSIVE PartsOf(_)
PartsOf(keys) ==
    IF keys = <<>> THEN <<>>
    ELSE LET known == Head(keys) \in DOMAIN component_map(metadata)
             value == component_map(metadata)[Head(keys)]
         IN  (IF known /\ Truthy(value) THEN <<value>> ELSE <<>>) \o PartsOf(Tail(keys))

PrefixPart == IF custom_prefix = <<>> THEN <<>> ELSE <<Keep(custom_prefix, SafeChars)>>

\* C8: the name parts are the sanitized prefix first, when the prefix is
\* non-empty, then the values of the tokens of component_list in the order
\* supplied; an unknown token or one with a null or empty value gives no
\* part.
C8_PartsInOrder ==
    /\ cp_pc = "loop" => name_parts = PrefixPart \o PartsOf(SubSeq(KeyList(component_list), 1, ci - 1))
    /\ cp_pc \in {"join", "done"} /\ PrefixPart \o PartsOf(KeyList(component_list)) # <<>>
          => name_parts = PrefixPart \o PartsOf(KeyList(component_list))

\* a prefix, a token whose value is null, a token with a value
C8_Witness ==
    /\ cp_pc = "join"
    /\ custom_prefix # <<>>
    /\ Len(component_list) = 2
    /\ component_list[1] = "vendor"
    /\ component_list[2] = "date"
    /\ Get(metadata, "vendor", GENERIC) = None
    /\ name_parts = <<Keep(custom_prefix, SafeChars), component_map(metadata).date>>

\* C10: the returned name has a non-empty stem.
C10_NonEmptyStem == cp_pc = "done" => Len(suggested_name) > Len(original_extension)

====
